---------------------------- MODULE Spec2Model ----------------------------
(* A model of the e-commerce analytics pipeline:                           *)
(*   data_loader.py       EcommerceDataLoader (load, clean, sales view)    *)
(*   business_metrics.py  BusinessMetricsCalculator (the metric operations)*)
(*                                                                         *)
(* A DataFrame is [cols |-> set of column names, rows |-> sequence of      *)
(* records over cols].  A cell is NaN (the empty tuple) or <<v>>.  Floats  *)
(* are exact fractions [n, d] with d >= 0: d = 0 is NaN (n = 0) or an      *)
(* infinity (n # 0), as IEEE division yields them.                         *)
EXTENDS Integers, Sequences, FiniteSets, TLC

VARIABLES csv, raw_data, processed_data, filters, sales_data,
          comparison_data, result

vars == <<csv, raw_data, processed_data, filters, sales_data,
          comparison_data, result>>

-----------------------------------------------------------------------------
(* Cells, Python None, fractions *)

NaN == <<>>
None == <<>>
V(x) == <<x>>
Val(c) == c[1]
isna(c) == c = NaN

Frac(n, d) == IF d < 0 THEN [n |-> -n, d |-> -d] ELSE [n |-> n, d |-> d]
FracOfInt(i) == [n |-> i, d |-> 1]
FracIsNaN(x) == x.d = 0 /\ x.n = 0
FracIsInf(x) == x.d = 0 /\ x.n # 0
FracIsFinite(x) == x.d > 0
FracSub(x, y) == Frac(x.n * y.d - y.n * x.d, x.d * y.d)
FracMul(x, y) == Frac(x.n * y.n, x.d * y.d)
FracDiv(x, y) == Frac(x.n * y.d, x.d * y.n)
\* x > 0 as a float comparison: false for NaN
FracGT0(x) == x.n > 0
\* equality of two finite fractions
FracEq(x, y) == x.d > 0 /\ y.d > 0 /\ x.n * y.d = y.n * x.d

-----------------------------------------------------------------------------
(* Sequences and sets of integers *)

RECURSIVE SumSeq(_)
SumSeq(s) == IF s = <<>> THEN 0 ELSE Head(s) + SumSeq(Tail(s))

Min(S) == CHOOSE x \in S : \A y \in S : x <= y

RECURSIVE SortedSeq(_)
\* the elements of a finite set of integers in ascending order
SortedSeq(S) == IF S = {} THEN <<>> ELSE <<Min(S)>> \o SortedSeq(S \ {Min(S)})

RECURSIVE InsertAsc(_, _)
InsertAsc(x, s) ==
    IF s = <<>> THEN <<x>>
    ELSE IF x < Head(s) THEN <<x>> \o s
    ELSE <<Head(s)>> \o InsertAsc(x, Tail(s))

RECURSIVE SortAsc(_)
\* a sequence of integers in ascending order, duplicates kept
SortAsc(s) == IF s = <<>> THEN <<>> ELSE InsertAsc(Head(s), SortAsc(Tail(s)))

Range(s) == {s[i] : i \in 1..Len(s)}

-----------------------------------------------------------------------------
(* DataFrame primitives (pandas) *)

DataFrame(cols, rows) == [cols |-> cols, rows |-> rows]
len(df) == Len(df.rows)

\* df[col].tolist()
Column(df, col) == [i \in 1..Len(df.rows) |-> df.rows[i][col]]

\* df[cols]
Project(df, cols) ==
    DataFrame(cols, [i \in 1..Len(df.rows) |-> [c \in cols |-> df.rows[i][c]]])

\* Series.dropna()
DropNa(s) == SelectSeq(s, LAMBDA c : ~isna(c))

Values(s) == [i \in 1..Len(s) |-> Val(s[i])]

\* Series.sum(): NaN cells are skipped, the empty sum is 0
sum(s) == SumSeq(Values(DropNa(s)))

\* Series.nunique(): NaN cells are not counted
nunique(s) == Cardinality(Range(s) \ {NaN})

\* Series.mean(): NaN cells are skipped, the empty mean is NaN
mean(s) == Frac(sum(s), Len(DropNa(s)))

\* Series.median() of integer cells: NaN skipped, the empty median is NaN
median(s) ==
    LET v == SortAsc(Values(DropNa(s)))
        k == Len(v)
    IN  IF k = 0 THEN Frac(0, 0)
        ELSE IF k % 2 = 1 THEN FracOfInt(v[(k + 1) \div 2])
        ELSE Frac(v[k \div 2] + v[k \div 2 + 1], 2)

\* df[df[col] == value]: a NaN cell equals nothing
FilterEq(df, col, value) ==
    DataFrame(df.cols, SelectSeq(df.rows, LAMBDA r : r[col] = V(value)))

\* the rows of one group of df.groupby(col)
Group(df, col, key) ==
    DataFrame(df.cols, SelectSeq(df.rows, LAMBDA r : r[col] = V(key)))

\* the group keys of df.groupby(col) over an integer column: ascending,
\* rows with a NaN key belong to no group (dropna=True)
GroupKeys(df, col) == SortedSeq({Val(c) : c \in Range(Column(df, col)) \ {NaN}})

RECURSIVE DropDupRows(_, _)
DropDupRows(rows, seen) ==
    IF rows = <<>> THEN <<>>
    ELSE IF Head(rows) \in seen THEN DropDupRows(Tail(rows), seen)
    ELSE <<Head(rows)>> \o DropDupRows(Tail(rows), seen \cup {Head(rows)})

\* df.drop_duplicates(): the first of every set of equal rows is kept
\* (NaN cells compare equal here)
drop_duplicates(df) == DataFrame(df.cols, DropDupRows(df.rows, {}))


-----------------------------------------------------------------------------
(* BusinessMetricsCalculator: what an operation hands back *)

\* a call returns a value or raises an exception with its message
Returned(op, value) == [op |-> op, raised |-> "", message |-> "", value |-> value]
Raised(op, exc, message) ==
    [op |-> op, raised |-> exc, message |-> message, value |-> <<>>]
NoResult == [op |-> "", raised |-> "", message |-> "", value |-> <<>>]

-----------------------------------------------------------------------------
(* calculate_revenue_metrics *)

\* the variant with one value per item: the prices themselves
OrderTotalsPerItem(df) == Column(df, "price")

\* df.groupby('order_id')['price'].sum(): one total per order
OrderTotals(df) ==
    LET keys == GroupKeys(df, "order_id")
    IN  [i \in 1..Len(keys) |->
            V(sum(Column(Group(df, "order_id", keys[i]), "price")))]

\* the variant that tests previous >= 0
GrowthPctNonNegative(current, previous) ==
    IF previous.n >= 0
    THEN V(FracMul(FracDiv(FracSub(current, previous), previous), FracOfInt(100)))
    ELSE None

\* (current - previous) / previous * 100 when previous > 0, else None
GrowthPct(current, previous) ==
    IF FracGT0(previous)
    THEN V(FracMul(FracDiv(FracSub(current, previous), previous), FracOfInt(100)))
    ELSE None

ComparisonMetrics(metrics, comparison) ==
    LET prev_revenue == FracOfInt(sum(Column(comparison, "price")))
        prev_orders == FracOfInt(nunique(Column(comparison, "order_id")))
        prev_aov == mean(OrderTotals(comparison))
    IN  [revenue_growth_pct |->
            GrowthPct(FracOfInt(metrics.total_revenue), prev_revenue),
         order_growth_pct |->
            GrowthPct(FracOfInt(metrics.total_orders), prev_orders),
         aov_growth_pct |->
            GrowthPct(metrics.average_order_value, prev_aov)]

\* total_items / total_orders on Python ints
ItemsPerOrder(total_items, total_orders) == Frac(total_items, total_orders)

\* len(sales_data)
CountRows(df) == len(df)

\* the variant that counts the rows
DistinctOrdersAsItems(df) == len(df)

\* sales_data['order_id'].nunique()
DistinctOrders(df) == nunique(Column(df, "order_id"))

RevenueMetrics(df, comparison) ==
    LET op == "calculate_revenue_metrics"
        needed == {"price", "order_id"}
        total_orders == DistinctOrders(df)
        total_items == CountRows(df)
        metrics ==
            [total_revenue |-> sum(Column(df, "price")),
             average_order_value |-> mean(OrderTotals(df)),
             median_order_value |-> median(OrderTotals(df)),
             total_orders |-> total_orders,
             total_items |-> total_items,
             avg_items_per_order |-> ItemsPerOrder(total_items, total_orders)]
    IN  IF ~(needed \subseteq df.cols) THEN Raised(op, "KeyError", "column")
        ELSE IF total_orders = 0
             THEN Raised(op, "ZeroDivisionError", "division by zero")
        ELSE IF comparison = None THEN Returned(op, metrics)
        ELSE IF ~(needed \subseteq Val(comparison).cols)
             THEN Raised(op, "KeyError", "column")
        ELSE Returned(op, ComparisonMetrics(metrics, Val(comparison)) @@ metrics)

-----------------------------------------------------------------------------
(* calculate_monthly_trends *)

\* the variant that reports a growth of 0 for the first row
PctChangeZeroFirst(values, i) ==
    IF i = 1 THEN FracOfInt(0)
    ELSE FracMul(FracSub(FracDiv(FracOfInt(values[i]), FracOfInt(values[i - 1])),
                         FracOfInt(1)),
                 FracOfInt(100))

\* Series.pct_change() * 100 over a column of integers: row i against row
\* i - 1, NaN for the first row
PctChange(values, i) ==
    IF i = 1 THEN Frac(0, 0)
    ELSE FracMul(FracSub(FracDiv(FracOfInt(values[i]), FracOfInt(values[i - 1])),
                         FracOfInt(1)),
                 FracOfInt(100))

MonthlyTrends(df) ==
    LET op == "calculate_monthly_trends"
        keys == GroupKeys(df, "month")
        revenue == [i \in 1..Len(keys) |->
                       sum(Column(Group(df, "month", keys[i]), "price"))]
        orders == [i \in 1..Len(keys) |->
                      nunique(Column(Group(df, "month", keys[i]), "order_id"))]
    IN  IF "month" \notin df.cols
        THEN Raised(op, "ValueError", "Month column not found in sales data")
        ELSE IF ~({"price", "order_id"} \subseteq df.cols)
             THEN Raised(op, "KeyError", "column")
        ELSE Returned(op,
                [i \in 1..Len(keys) |->
                    [month |-> keys[i],
                     revenue |-> revenue[i],
                     orders |-> orders[i],
                     revenue_growth_pct |-> PctChange(revenue, i),
                     orders_growth_pct |-> PctChange(orders, i),
                     avg_order_value |-> Frac(revenue[i], orders[i])]])

-----------------------------------------------------------------------------
(* analyze_product_performance, analyze_geographic_performance *)

\* sort_values('revenue', ascending=False) with the default
\* kind='quicksort', which is not a stable sort: the rows come back in
\* descending order of revenue, rows of equal revenue in an order the
\* sorting routine of the build decides.  Every arrangement it may produce:
SortByRevenue(s) ==
    {[i \in 1..Len(s) |-> s[f[i]]] :
        f \in {g \in [1..Len(s) -> 1..Len(s)] :
                  /\ \A i, j \in 1..Len(s) : i # j => g[i] # g[j]
                  /\ \A i, j \in 1..Len(s) :
                         i < j => s[g[i]].revenue >= s[g[j]].revenue}}

\* the variant that sums the price of every record
ShareTotalAllRecords(df, groups) == sum(Column(df, "price"))

\* the denominator of revenue_share_pct: the sum of the groups' revenue
ShareTotal(df, groups) == SumSeq([i \in 1..Len(groups) |-> groups[i].revenue])

\* revenue / total_revenue * 100
RevenueSharePct(revenue, total_revenue) ==
    FracMul(FracDiv(FracOfInt(revenue), FracOfInt(total_revenue)), FracOfInt(100))

\* df.groupby(col).agg(price sum, order_id nunique, counted: count or
\* nunique) with the share and the average order value, before the sort
GroupMetrics(df, col, counted, distinct) ==
    LET keys == GroupKeys(df, col)
        g(i) == Group(df, col, keys[i])
        groups == [i \in 1..Len(keys) |->
                      [key |-> keys[i],
                       revenue |-> sum(Column(g(i), "price")),
                       orders |-> nunique(Column(g(i), "order_id")),
                       counted |-> IF distinct
                                   THEN nunique(Column(g(i), counted))
                                   ELSE Len(DropNa(Column(g(i), counted)))]]
        total_revenue == ShareTotal(df, groups)
    IN  [i \in 1..Len(keys) |->
            [key |-> groups[i].key,
             revenue |-> groups[i].revenue,
             orders |-> groups[i].orders,
             counted |-> groups[i].counted,
             revenue_share_pct |-> RevenueSharePct(groups[i].revenue, total_revenue),
             avg_order_value |-> Frac(groups[i].revenue, groups[i].orders)]]

\* what analyze_product_performance may hand back: one result, or one per
\* arrangement of the sort
ProductPerformance(df) ==
    LET op == "analyze_product_performance"
    IN  IF "product_category_name" \notin df.cols
        THEN {Raised(op, "ValueError",
                     "Product category column not found in sales data")}
        ELSE IF ~({"price", "order_id", "order_item_id"} \subseteq df.cols)
             THEN {Raised(op, "KeyError", "column")}
        ELSE LET m == GroupMetrics(df, "product_category_name", "order_item_id", FALSE)
             IN  {Returned(op, sorted) : sorted \in SortByRevenue(
                    [i \in 1..Len(m) |->
                        [category |-> m[i].key,
                         revenue |-> m[i].revenue,
                         orders |-> m[i].orders,
                         items_sold |-> m[i].counted,
                         revenue_share_pct |-> m[i].revenue_share_pct,
                         avg_order_value |-> m[i].avg_order_value]])}

\* what analyze_geographic_performance may hand back
GeographicPerformance(df) ==
    LET op == "analyze_geographic_performance"
    IN  IF "customer_state" \notin df.cols
        THEN {Raised(op, "ValueError",
                     "Customer state column not found in sales data")}
        ELSE IF ~({"price", "order_id", "customer_id"} \subseteq df.cols)
             THEN {Raised(op, "KeyError", "column")}
        ELSE LET m == GroupMetrics(df, "customer_state", "customer_id", TRUE)
             IN  {Returned(op, sorted) : sorted \in SortByRevenue(
                    [i \in 1..Len(m) |->
                        [state |-> m[i].key,
                         revenue |-> m[i].revenue,
                         orders |-> m[i].orders,
                         customers |-> m[i].counted,
                         revenue_share_pct |-> m[i].revenue_share_pct,
                         avg_order_value |-> m[i].avg_order_value]])}

-----------------------------------------------------------------------------
(* analyze_customer_satisfaction *)

ErrorMarker(reason) == [error |-> reason]

\* Series.value_counts(normalize=True).to_dict(): the share of every value
\* that occurs, NaN cells not counted
ValueCountsNormalized(s) ==
    LET present == DropNa(s)
    IN  [v \in Range(Values(present)) |->
            Frac(Len(SelectSeq(present, LAMBDA c : c = V(v))), Len(present))]

\* the variant without drop_duplicates()
UniqueReviewsNoDedup(df) == Project(df, {"order_id", "review_score"})

\* sales_data[['order_id', 'review_score']].drop_duplicates()
UniqueReviews(df) == drop_duplicates(Project(df, {"order_id", "review_score"}))

CustomerSatisfaction(df) ==
    LET op == "analyze_customer_satisfaction"
        reviews == UniqueReviews(df)
        scores == Column(reviews, "review_score")
        high_satisfaction == SelectSeq(DropNa(scores), LAMBDA c : Val(c) >= 4)
    IN  IF "review_score" \notin df.cols
        THEN Returned(op, ErrorMarker("Review score column not found"))
        ELSE IF "order_id" \notin df.cols THEN Raised(op, "KeyError", "column")
        ELSE IF len(reviews) = 0
             THEN Raised(op, "ZeroDivisionError", "division by zero")
        ELSE Returned(op,
                [avg_review_score |-> mean(scores),
                 median_review_score |-> median(scores),
                 total_reviews |-> len(reviews),
                 score_distribution |-> ValueCountsNormalized(scores),
                 high_satisfaction_pct |->
                     Frac(Len(high_satisfaction) * 100, len(reviews))])

-----------------------------------------------------------------------------
(* analyze_delivery_performance *)

\* the variant with days < 3 and days < 7
categorize_delivery_speed_exclusive(days) ==
    IF isna(days) THEN "Unknown"
    ELSE IF Val(days) < 3 THEN "1-3 days"
    ELSE IF Val(days) < 7 THEN "4-7 days"
    ELSE "8+ days"

categorize_delivery_speed(days) ==
    IF isna(days) THEN "Unknown"
    ELSE IF Val(days) <= 3 THEN "1-3 days"
    ELSE IF Val(days) <= 7 THEN "4-7 days"
    ELSE "8+ days"

\* the de-duplicated (order_id, delivery_days, review_score) rows with a
\* delivery_days, each with its delivery_category
DeliveryData(df) ==
    LET unique == drop_duplicates(
                      Project(df, {"order_id", "delivery_days", "review_score"}))
        rows == SelectSeq(unique.rows, LAMBDA r : ~isna(r.delivery_days))
    IN  [i \in 1..Len(rows) |->
            [order_id |-> rows[i].order_id,
             delivery_days |-> rows[i].delivery_days,
             review_score |-> rows[i].review_score,
             delivery_category |-> categorize_delivery_speed(rows[i].delivery_days)]]

DeliveryPerformance(df) ==
    LET op == "analyze_delivery_performance"
        delivery_data == DeliveryData(df)
        days == [i \in 1..Len(delivery_data) |-> delivery_data[i].delivery_days]
        categories ==
            {delivery_data[i].delivery_category : i \in 1..Len(delivery_data)}
        in_category(c) == SelectSeq(delivery_data, LAMBDA r : r.delivery_category = c)
    IN  IF "delivery_days" \notin df.cols
        THEN Returned(op, ErrorMarker("Delivery days column not found"))
        ELSE IF ~({"order_id", "review_score"} \subseteq df.cols)
             THEN Raised(op, "KeyError", "column")
        ELSE Returned(op,
                [avg_delivery_days |-> mean(days),
                 median_delivery_days |-> median(days),
                 delivery_category_distribution |->
                     [c \in categories |->
                         Frac(Len(in_category(c)), Len(delivery_data))],
                 avg_review_by_delivery_speed |->
                     [c \in categories |->
                         mean([i \in 1..Len(in_category(c)) |->
                                  in_category(c)[i].review_score])]])

-----------------------------------------------------------------------------
(* generate_comprehensive_report *)

\* try: section = operation()  except ValueError as e: {"error": str(e)}
Section(r) == IF r.raised = "ValueError" THEN ErrorMarker(r.message) ELSE r.value

\* the report built from what the six operations hand back, in call order
Report(sections) ==
    LET op == "generate_comprehensive_report"
        escaping == SelectSeq(sections,
                        LAMBDA r : r.raised # "" /\
                            (r.raised # "ValueError"
                               \/ r.op = "calculate_revenue_metrics"))
    IN  IF escaping # <<>> THEN Raised(op, escaping[1].raised, escaping[1].message)
        ELSE Returned(op,
                [revenue_metrics |-> Section(sections[1]),
                 monthly_trends |-> Section(sections[2]),
                 product_performance |-> Section(sections[3]),
                 geographic_performance |-> Section(sections[4]),
                 customer_satisfaction |-> Section(sections[5]),
                 delivery_performance |-> Section(sections[6])])

\* what generate_comprehensive_report may hand back
ComprehensiveReport(df, comparison) ==
    {Report(<<RevenueMetrics(df, comparison), MonthlyTrends(df), product,
              geographic, CustomerSatisfaction(df), DeliveryPerformance(df)>>) :
        product \in ProductPerformance(df),
        geographic \in GeographicPerformance(df)}

-----------------------------------------------------------------------------
(* EcommerceDataLoader: timestamps *)
(* A raw timestamp is the text of a date and hour, [year, month, day,      *)
(* hour]; a parsed one counts the hours since 2022-01-01 00:00.  The       *)
(* calendar is that of the years 2022 and 2023.                            *)

DaysBeforeMonth == <<0, 31, 59, 90, 120, 151, 181, 212, 243, 273, 304, 334>>

\* pd.to_datetime of one cell
to_datetime(c) ==
    IF isna(c) THEN NaN
    ELSE LET t == Val(c)
         IN  V(((t.year - 2022) * 365 + DaysBeforeMonth[t.month] + t.day - 1) * 24
               + t.hour)

\* Series.dt.year, Series.dt.month of one cell
dt_year(c) == IF isna(c) THEN NaN ELSE V(2022 + (Val(c) \div 24) \div 365)

dt_month(c) ==
    IF isna(c) THEN NaN
    ELSE LET day_of_year == (Val(c) \div 24) % 365
         IN  V(CHOOSE m \in 1..12 :
                   /\ DaysBeforeMonth[m] <= day_of_year
                   /\ (m = 12 \/ day_of_year < DaysBeforeMonth[m + 1]))

\* the variant that counts the day of purchase and the day of delivery
timedelta_days_inclusive(delivered, purchased) ==
    IF isna(delivered) \/ isna(purchased) THEN NaN
    ELSE V((Val(delivered) - Val(purchased)) \div 24 + 1)

\* (delivered - purchased).dt.days of one row: whole days, rounded down
timedelta_days(delivered, purchased) ==
    IF isna(delivered) \/ isna(purchased) THEN NaN
    ELSE V((Val(delivered) - Val(purchased)) \div 24)

\* df[col] = F(row)
Assign(df, col, F(_)) ==
    DataFrame(df.cols \cup {col},
        [i \in 1..Len(df.rows) |->
            [c \in df.cols \cup {col} |->
                IF c = col THEN F(df.rows[i]) ELSE df.rows[i][c]]])

-----------------------------------------------------------------------------
(* EcommerceDataLoader: the clean transforms *)

timestamp_cols ==
    {"order_purchase_timestamp", "order_approved_at",
     "order_delivered_carrier_date", "order_delivered_customer_date",
     "order_estimated_delivery_date"}

\* for col in cols: if col in df.columns: df[col] = pd.to_datetime(df[col])
ParseColumns(df, cols) ==
    DataFrame(df.cols,
        [i \in 1..Len(df.rows) |->
            [c \in df.cols |->
                IF c \in cols THEN to_datetime(df.rows[i][c]) ELSE df.rows[i][c]]])

CleanOrders(orders) ==
    LET parsed == ParseColumns(orders, timestamp_cols)
        with_year == Assign(parsed, "year",
                        LAMBDA r : dt_year(r.order_purchase_timestamp))
    IN  Assign(with_year, "month", LAMBDA r : dt_month(r.order_purchase_timestamp))

CleanOrderItems(order_items) ==
    Assign(order_items, "total_item_value",
        LAMBDA r : IF isna(r.price) \/ isna(r.freight_value) THEN NaN
                   ELSE V(Val(r.price) + Val(r.freight_value)))

CleanCustomers(customers) == customers

CleanProducts(products) == products

CleanReviews(reviews) ==
    ParseColumns(reviews, {"review_creation_date", "review_answer_timestamp"})

-----------------------------------------------------------------------------
(* EcommerceDataLoader.create_sales_dataset *)

RECURSIVE MergeRows(_, _, _, _)
MergeRows(lrows, rrows, on, cols) ==
    IF lrows = <<>> THEN <<>>
    ELSE LET l == Head(lrows)
             matches == SelectSeq(rrows, LAMBDA r : r[on] = l[on])
             joined(r) == [c \in cols |-> IF c \in DOMAIN l THEN l[c] ELSE r[c]]
             unmatched == [c \in cols |-> IF c \in DOMAIN l THEN l[c] ELSE NaN]
         IN  (IF matches = <<>> THEN <<unmatched>>
              ELSE [j \in 1..Len(matches) |-> joined(matches[j])])
             \o MergeRows(Tail(lrows), rrows, on, cols)

\* the variant with how='inner': left rows without a match are dropped
MergeInner(left, right, on) ==
    DataFrame(left.cols \cup right.cols,
        MergeRows(SelectSeq(left.rows,
                      LAMBDA l : \E j \in 1..Len(right.rows) : right.rows[j][on] = l[on]),
                  right.rows, on, left.cols \cup right.cols))

\* pd.merge(left, right, on=on, how='left'): every left row, in order,
\* once per matching right row, or once with NaN cells when none matches
MergeLeft(left, right, on) ==
    DataFrame(left.cols \cup right.cols,
              MergeRows(left.rows, right.rows, on, left.cols \cup right.cols))

\* `if status_filter:` and `if year_filter:` test the truth value
TruthyStr(f) == f # None /\ Val(f) # ""
TruthyInt(f) == f # None /\ Val(f) # 0

\* the variant in which an applied filter keeps the first matching row only
FilterStepFirstMatch(sales, step, year_filter, month_filter, status_filter) ==
    LET first(kept) ==
            DataFrame(kept.cols, SubSeq(kept.rows, 1, Min({1, Len(kept.rows)})))
    IN  IF step = "status" /\ TruthyStr(status_filter)
        THEN first(FilterEq(sales, "order_status", Val(status_filter)))
        ELSE IF step = "year" /\ TruthyInt(year_filter)
        THEN first(FilterEq(sales, "year", Val(year_filter)))
        ELSE IF step = "month" /\ TruthyInt(month_filter)
        THEN first(FilterEq(sales, "month", Val(month_filter)))
        ELSE sales

\* one filter step: `if f: sales = sales[sales[col] == f].copy()`
FilterStep(sales, step, year_filter, month_filter, status_filter) ==
    IF step = "status" /\ TruthyStr(status_filter)
    THEN FilterEq(sales, "order_status", Val(status_filter))
    ELSE IF step = "year" /\ TruthyInt(year_filter)
    THEN FilterEq(sales, "year", Val(year_filter))
    ELSE IF step = "month" /\ TruthyInt(month_filter)
    THEN FilterEq(sales, "month", Val(month_filter))
    ELSE sales

RECURSIVE ApplyFiltersIn(_, _, _, _, _)
\* the filter steps applied one after the other in the order given
ApplyFiltersIn(order, sales, year_filter, month_filter, status_filter) ==
    IF order = <<>> THEN sales
    ELSE ApplyFiltersIn(Tail(order),
             FilterStep(sales, Head(order), year_filter, month_filter,
                        status_filter),
             year_filter, month_filter, status_filter)

\* the order of the code: status, then year, then month
ApplyFilters(sales, year_filter, month_filter, status_filter) ==
    ApplyFiltersIn(<<"status", "year", "month">>, sales, year_filter,
                   month_filter, status_filter)

MergeReviews(sales, reviews) ==
    MergeLeft(sales, Project(reviews, {"order_id", "review_score"}), "order_id")

\* the order items merged with their orders, before the filters
ItemsWithOrders(processed) ==
    LET base == Project(processed.order_items,
                    {"order_id", "order_item_id", "product_id", "price",
                     "freight_value"})
    IN  MergeLeft(base,
            Project(processed.orders,
                {"order_id", "customer_id", "order_status",
                 "order_purchase_timestamp", "order_delivered_customer_date",
                 "year", "month"}),
            "order_id")

\* the filtered rows merged with products, customers and reviews, with
\* their delivery_days
WithDimensions(filtered, processed) ==
    LET with_products ==
            MergeLeft(filtered,
                Project(processed.products, {"product_id", "product_category_name"}),
                "product_id")
        with_customers ==
            MergeLeft(with_products,
                Project(processed.customers,
                    {"customer_id", "customer_state", "customer_city"}),
                "customer_id")
        with_reviews == MergeReviews(with_customers, processed.reviews)
    IN  Assign(with_reviews, "delivery_days",
            LAMBDA r : timedelta_days(r.order_delivered_customer_date,
                                      r.order_purchase_timestamp))

SalesDataset(processed, year_filter, month_filter, status_filter) ==
    WithDimensions(ApplyFilters(ItemsWithOrders(processed), year_filter,
                                month_filter, status_filter),
                   processed)

\* get_data_summary()['years_available']
YearsAvailable(processed) ==
    {Val(c) : c \in Range(Column(processed.orders, "year")) \ {NaN}}

-----------------------------------------------------------------------------
(* Bounds and the inputs drawn within them *)

\* rows of the order_items table, of the reviews table, of a sales view
\* handed to the calculator, and of a comparison view
MaxItems == 2
MaxReviews == 2
MaxRows == 2
MaxComparisonRows == 1

SeqsUpTo(S, n) == UNION {[1..k -> S] : k \in 0..n}

Date(y, m, d, h) == V([year |-> y, month |-> m, day |-> d, hour |-> h])

OrderRow(id, customer, status, purchased, delivered) ==
    [order_id |-> V(id), customer_id |-> V(customer), order_status |-> V(status),
     order_purchase_timestamp |-> purchased,
     order_delivered_customer_date |-> delivered]

ItemRow(order, item, product, price, freight) ==
    [order_id |-> V(order), order_item_id |-> V(item), product_id |-> V(product),
     price |-> V(price), freight_value |-> V(freight)]

ProductRow(id, category) == [product_id |-> V(id), product_category_name |-> category]

CustomerRow(id, state, city) ==
    [customer_id |-> V(id), customer_state |-> V(state), customer_city |-> V(city)]

ReviewRow(order, score) == [order_id |-> V(order), review_score |-> V(score)]

OrdersTable(rows) ==
    DataFrame({"order_id", "customer_id", "order_status",
               "order_purchase_timestamp", "order_delivered_customer_date"}, rows)

\* kinds: <<order_id, product_id, price>> per row; order_item_id numbers the rows
ItemsTable(kinds) ==
    DataFrame({"order_id", "order_item_id", "product_id", "price", "freight_value"},
        [i \in 1..Len(kinds) |-> ItemRow(kinds[i][1], i, kinds[i][2], kinds[i][3], 1)])

ProductsTable(rows) == DataFrame({"product_id", "product_category_name"}, rows)

CustomersTable(rows) ==
    DataFrame({"customer_id", "customer_state", "customer_city"}, rows)

ReviewsTable(rows) == DataFrame({"order_id", "review_score"}, rows)

Dataset(orders, order_items, products, customers, reviews) ==
    [orders |-> orders, order_items |-> order_items, products |-> products,
     customers |-> customers, reviews |-> reviews]

DatasetNames == {"orders", "order_items", "products", "customers", "reviews"}

\* two delivered orders of January 2023, one item and one review each
EndToEndOrders ==
    OrdersTable(<<OrderRow(1, 1, "delivered", Date(2023, 1, 5, 0), Date(2023, 1, 9, 0)),
                  OrderRow(2, 2, "delivered", Date(2023, 1, 20, 0), Date(2023, 1, 22, 0))>>)

\* a delivered order of January 2023 and one of December 2022
JoinOrders ==
    OrdersTable(<<OrderRow(1, 1, "delivered", Date(2023, 1, 5, 0), Date(2023, 1, 9, 0)),
                  OrderRow(2, 2, "delivered", Date(2022, 12, 31, 12), Date(2023, 1, 3, 0))>>)

EndToEndProducts == ProductsTable(<<ProductRow(1, V(1)), ProductRow(2, V(2))>>)

EndToEndCustomers == CustomersTable(<<CustomerRow(1, 1, 1), CustomerRow(2, 2, 2)>>)

EndToEndReviews == ReviewsTable(<<ReviewRow(1, 5), ReviewRow(2, 3)>>)

EndToEnd ==
    Dataset(EndToEndOrders,
            DataFrame({"order_id", "order_item_id", "product_id", "price",
                       "freight_value"},
                      <<ItemRow(1, 1, 1, 100, 10), ItemRow(2, 1, 2, 50, 5)>>),
            EndToEndProducts, EndToEndCustomers, EndToEndReviews)

\* orders that differ in status, year and month
OrderAttrs ==
    {<<"delivered", Date(2023, 1, 5, 0), Date(2023, 1, 9, 0)>>,
     <<"delivered", Date(2022, 12, 31, 12), Date(2023, 1, 3, 0)>>,
     <<"delivered", Date(2023, 2, 10, 0), Date(2023, 2, 18, 12)>>,
     <<"canceled", Date(2023, 1, 20, 0), NaN>>}

FilterDatasets ==
    {Dataset(OrdersTable(
                 <<OrderRow(1, 1, a[1], a[2], a[3])>>
                 \o (IF b = <<>> THEN <<>> ELSE <<OrderRow(2, 2, b[1], b[2], b[3])>>)),
             ItemsTable(items), EndToEndProducts, EndToEndCustomers, EndToEndReviews) :
        a \in OrderAttrs, b \in OrderAttrs \cup {<<>>},
        items \in SeqsUpTo({<<1, 1, 1>>, <<2, 2, 2>>}, MaxItems)}

\* tables in which a product, a customer or a review may be missing, a
\* category may be null and an order may have several reviews
JoinDatasets ==
    {Dataset(JoinOrders, ItemsTable(items), ProductsTable(products),
             CustomersTable(customers), ReviewsTable(reviews)) :
        items \in SeqsUpTo({<<1, 1, 1>>, <<2, 2, 2>>}, MaxItems),
        products \in {<<ProductRow(1, V(1))>>},
        customers \in {<<CustomerRow(1, 1, 1)>>},
        reviews \in SeqsUpTo({ReviewRow(1, 5), ReviewRow(1, 3)}, MaxReviews)}

YearFilters == {None, V(0), V(2023)}
MonthFilters == {None, V(0), V(1)}
StatusFilters == {None, V(""), V("delivered")}

\* sales views with the columns of the revenue metrics
RevenueViews(n) ==
    {DataFrame({"order_id", "price"}, rows) :
        rows \in SeqsUpTo([order_id : {V(1), V(2)}, price : {V(0), V(1), V(2)}], n)}

\* sales views with the columns of the category and state groupings; the
\* customer is the order's, the state cell repeats the category cell
GroupViews(n) ==
    {DataFrame({"order_id", "order_item_id", "price", "product_category_name",
                "customer_state", "customer_id"},
               [i \in 1..Len(kinds) |->
                   [order_id |-> kinds[i][1], order_item_id |-> V(i),
                    price |-> kinds[i][2], product_category_name |-> kinds[i][3],
                    customer_state |-> kinds[i][3], customer_id |-> kinds[i][1]]]) :
        kinds \in SeqsUpTo({V(1), V(2)} \X {V(0), V(1), V(2)} \X {NaN, V(1), V(2)}, n)}

\* sales views with the columns of the satisfaction and delivery analyses
ReviewViews(n) ==
    {DataFrame({"order_id", "review_score", "delivery_days"}, rows) :
        rows \in SeqsUpTo([order_id : {V(1), V(2)},
                           review_score : {NaN, V(3), V(4)},
                           delivery_days : {NaN, V(3), V(4), V(7), V(8)}], n)}

\* sales views with the columns of the monthly trends; a month may be null
\* and months may be missing between two that are present
TrendViews(n) ==
    {DataFrame({"order_id", "price", "month"}, rows) :
        rows \in SeqsUpTo([order_id : {V(1), V(2)}, price : {V(0), V(1), V(2)},
                           month : {NaN, V(1), V(3)}], n)}

\* the columns of a sales view that only one analysis needs
DimensionColumns ==
    {"month", "product_category_name", "customer_state", "review_score",
     "delivery_days"}

\* sales views of up to n rows from which any of the dimension columns may
\* be missing
ColumnViews(n) ==
    {Project(DataFrame({"order_id", "order_item_id", "customer_id", "price"}
                           \cup DimensionColumns,
                       [i \in 1..Len(kinds) |->
                           [order_id |-> V(kinds[i]), order_item_id |-> V(i),
                            customer_id |-> V(kinds[i]), price |-> V(kinds[i]),
                            month |-> V(kinds[i]),
                            product_category_name |-> V(kinds[i]),
                            customer_state |-> V(kinds[i]),
                            review_score |-> V(kinds[i] + 3),
                            delivery_days |-> V(kinds[i] * 3)]]),
             ({"order_id", "order_item_id", "customer_id", "price"}
                  \cup DimensionColumns) \ missing) :
        kinds \in SeqsUpTo({1, 2}, n), missing \in SUBSET DimensionColumns}

-----------------------------------------------------------------------------
(* The state machine *)

NoCall == [called |-> FALSE, year_filter |-> None, month_filter |-> None,
           status_filter |-> None]

\* a loader just constructed beside the files `datasets` may hold
InitLoader(datasets) ==
    /\ csv \in datasets
    /\ raw_data = <<>>
    /\ processed_data = <<>>
    /\ filters = NoCall
    /\ sales_data = None
    /\ comparison_data = None
    /\ result = NoResult

\* a calculator just constructed on one of `views`
InitCalculator(views, comparisons) ==
    /\ csv = EndToEnd
    /\ raw_data = <<>>
    /\ processed_data = <<>>
    /\ filters = NoCall
    /\ sales_data \in {V(v) : v \in views}
    /\ comparison_data \in comparisons
    /\ result = NoResult

Init == InitLoader(FilterDatasets \cup {EndToEnd})
InitJoin == InitLoader(JoinDatasets)
InitRevenue ==
    InitCalculator(RevenueViews(MaxRows),
        {None} \cup {V(v) : v \in RevenueViews(MaxComparisonRows)})
InitGroups == InitCalculator(GroupViews(MaxRows), {None})
InitReviews == InitCalculator(ReviewViews(MaxRows), {None})
InitColumns == InitCalculator(ColumnViews(MaxRows), {None})
InitTrends == InitCalculator(TrendViews(MaxRows), {None})

load_raw_data ==
    /\ result = NoResult
    /\ raw_data' = csv
    /\ UNCHANGED <<csv, processed_data, filters, sales_data, comparison_data, result>>

\* the variant without .copy(): the transform writes into the raw table
TransformedInPlace(raw, name, cleaned) == (name :> cleaned) @@ raw

\* table = self.raw_data[name].copy(): the transform works on a copy and
\* the raw tables keep their value
TransformedCopy(raw, name, cleaned) == raw

\* the variant that appends to a table already published
PublishedAppended(processed, name, cleaned) ==
    IF name \in DOMAIN processed
    THEN (name :> DataFrame(cleaned.cols, processed[name].rows \o cleaned.rows))
             @@ processed
    ELSE (name :> cleaned) @@ processed

\* self.processed_data[name] = table
Published(processed, name, cleaned) == (name :> cleaned) @@ processed

\* a transform: it returns the cleaned table.  Run on a table already
\* cleaned it is a call the behaviour observes, as it observes a call on
\* the calculator.
Clean(name, cleaned) ==
    /\ result = NoResult
    /\ name \in DOMAIN raw_data
    /\ raw_data' = TransformedCopy(raw_data, name, cleaned)
    /\ processed_data' = Published(processed_data, name, cleaned)
    /\ result' = IF name \in DOMAIN processed_data
                 THEN Returned("clean_" \o name \o "_data", cleaned)
                 ELSE NoResult
    /\ UNCHANGED <<csv, filters, sales_data, comparison_data>>

clean_orders_data == Clean("orders", CleanOrders(raw_data.orders))
clean_order_items_data == Clean("order_items", CleanOrderItems(raw_data.order_items))
clean_customers_data == Clean("customers", CleanCustomers(raw_data.customers))
clean_products_data == Clean("products", CleanProducts(raw_data.products))
clean_reviews_data == Clean("reviews", CleanReviews(raw_data.reviews))

\* the call, and BusinessMetricsCalculator(sales) on what it returns
create_sales_dataset ==
    /\ result = NoResult
    /\ DOMAIN processed_data = DatasetNames
    /\ \E y \in YearFilters, m \in MonthFilters, s \in StatusFilters :
          /\ filters' = [called |-> TRUE, year_filter |-> y, month_filter |-> m,
                         status_filter |-> s]
          /\ sales_data' = V(SalesDataset(processed_data, y, m, s))
    /\ comparison_data' = None
    /\ result' = NoResult
    /\ UNCHANGED <<csv, raw_data, processed_data>>

\* the dashboard's view of the year before the selected one
create_comparison_dataset ==
    /\ result = NoResult
    /\ comparison_data = None
    /\ filters.called
    /\ filters.year_filter # None
    /\ filters.status_filter = V("delivered")
    /\ Val(filters.year_filter) - 1 \in YearsAvailable(processed_data)
    /\ comparison_data' =
           V(SalesDataset(processed_data, V(Val(filters.year_filter) - 1),
                          filters.month_filter, V("delivered")))
    /\ UNCHANGED <<csv, raw_data, processed_data, filters, sales_data, result>>

\* one call on the calculator; `result` is what it hands back, and the
\* behaviour observes one such call
Calculate(value) ==
    /\ sales_data # None
    /\ result = NoResult
    /\ result' = value
    /\ UNCHANGED <<csv, raw_data, processed_data, filters, sales_data, comparison_data>>

calculate_revenue_metrics == Calculate(RevenueMetrics(Val(sales_data), comparison_data))
calculate_monthly_trends == Calculate(MonthlyTrends(Val(sales_data)))
analyze_product_performance ==
    /\ sales_data # None
    /\ \E value \in ProductPerformance(Val(sales_data)) : Calculate(value)
analyze_geographic_performance ==
    /\ sales_data # None
    /\ \E value \in GeographicPerformance(Val(sales_data)) : Calculate(value)
analyze_customer_satisfaction == Calculate(CustomerSatisfaction(Val(sales_data)))
analyze_delivery_performance == Calculate(DeliveryPerformance(Val(sales_data)))
generate_comprehensive_report ==
    /\ sales_data # None
    /\ \E value \in ComprehensiveReport(Val(sales_data), comparison_data) :
          Calculate(value)

Next ==
    \/ load_raw_data
    \/ clean_orders_data
    \/ clean_order_items_data
    \/ clean_customers_data
    \/ clean_products_data
    \/ clean_reviews_data
    \/ create_sales_dataset
    \/ create_comparison_dataset
    \/ calculate_revenue_metrics
    \/ calculate_monthly_trends
    \/ analyze_product_performance
    \/ analyze_geographic_performance
    \/ analyze_customer_satisfaction
    \/ analyze_delivery_performance
    \/ generate_comprehensive_report

\* the calculator alone, on a sales view given to its constructor
NextCalculator ==
    \/ calculate_revenue_metrics
    \/ calculate_monthly_trends
    \/ analyze_product_performance
    \/ analyze_geographic_performance
    \/ analyze_customer_satisfaction
    \/ analyze_delivery_performance
    \/ generate_comprehensive_report

Spec == Init /\ [][Next]_vars
SpecJoin == InitJoin /\ [][Next]_vars
SpecRevenue == InitRevenue /\ [][NextCalculator]_vars
SpecGroups == InitGroups /\ [][NextCalculator]_vars
SpecReviews == InitReviews /\ [][NextCalculator]_vars
SpecColumns == InitColumns /\ [][NextCalculator]_vars
SpecTrends == InitTrends /\ [][NextCalculator]_vars

-----------------------------------------------------------------------------
(* What the properties below speak of *)

\* the sales view the calculator holds, and the comparison view when given
View == Val(sales_data).rows
Comparison == Val(comparison_data).rows

Returns(op) == result.op = op /\ result.raised = ""

\* a returned mapping that is not the {error: reason} marker
ReturnsMetrics(op) == Returns(op) /\ "error" \notin DOMAIN result.value

OrderIdsOf(rows) == {rows[i].order_id : i \in 1..Len(rows)}

PriceTotal(rows) == SumSeq([i \in 1..Len(rows) |-> Val(rows[i].price)])

FracAdd(x, y) == Frac(x.n * y.d + y.n * x.d, x.d * y.d)

RECURSIVE FracSum(_)
FracSum(s) == IF s = <<>> THEN FracOfInt(0) ELSE FracAdd(Head(s), FracSum(Tail(s)))

-----------------------------------------------------------------------------
(* C1 *)

\* C1: for every non-empty sales view, calculate_revenue_metrics returns
\* total_items equal to the number of records of the view and total_orders
\* equal to the number of distinct order_id values in it.
C1_ItemsAndOrdersCounted ==
    (result.op = "calculate_revenue_metrics" /\ Len(View) > 0) =>
        /\ result.raised = ""
        /\ result.value.total_items = Len(View)
        /\ result.value.total_orders = Cardinality(OrderIdsOf(View))

\* two records of one order have been counted
C1_Witness ==
    /\ Returns("calculate_revenue_metrics")
    /\ Len(View) = 2
    /\ Cardinality(OrderIdsOf(View)) = 1

-----------------------------------------------------------------------------
(* C5 *)

\* the growth the claim states for a baseline: absent when the baseline is
\* undefined or <= 0, else finite with growth * previous = (current -
\* previous) * 100
GrowthAsClaimed(growth, current, previous) ==
    IF FracIsNaN(previous) \/ previous.n <= 0
    THEN growth = None
    ELSE /\ growth # None
         /\ FracIsFinite(Val(growth))
         /\ FracEq(FracMul(Val(growth), previous),
                   FracMul(FracSub(current, previous), FracOfInt(100)))

\* C5: with comparison data, each of revenue_growth_pct, order_growth_pct
\* and aov_growth_pct is None whenever its baseline (previous revenue,
\* previous distinct-order count, previous average order value) is <= 0 or
\* undefined, and is otherwise (current - previous) / previous * 100; it is
\* never an infinity, also for an empty comparison view.
C5_GrowthAbsentOrExact ==
    (Returns("calculate_revenue_metrics") /\ comparison_data # None) =>
        LET m == result.value
            prev_revenue == PriceTotal(Comparison)
            prev_orders == Cardinality(OrderIdsOf(Comparison))
        IN  /\ GrowthAsClaimed(m.revenue_growth_pct,
                    FracOfInt(m.total_revenue), FracOfInt(prev_revenue))
            /\ GrowthAsClaimed(m.order_growth_pct,
                    FracOfInt(m.total_orders), FracOfInt(prev_orders))
            /\ GrowthAsClaimed(m.aov_growth_pct,
                    m.average_order_value, Frac(prev_revenue, prev_orders))

\* the metrics were computed against an empty comparison view, and against
\* none of its baselines a growth is reported
C5_Witness ==
    /\ Returns("calculate_revenue_metrics")
    /\ comparison_data # None
    /\ Len(Comparison) = 0
    /\ result.value.revenue_growth_pct = None
    /\ result.value.order_growth_pct = None
    /\ result.value.aov_growth_pct = None

-----------------------------------------------------------------------------
(* C6 *)

\* C6: calculate_revenue_metrics returns avg_items_per_order = total_items
\* / total_orders when total_orders > 0, and when total_orders = 0 (an
\* empty sales view) it does not raise: avg_items_per_order is absent.
C6_DivisionGuarded ==
    result.op = "calculate_revenue_metrics" =>
        /\ result.raised = ""
        /\ LET m == result.value
           IN  IF m.total_orders > 0
               THEN FracEq(m.avg_items_per_order, Frac(m.total_items, m.total_orders))
               ELSE m.avg_items_per_order = None

-----------------------------------------------------------------------------
(* C7, C8 *)

GroupOps == {"analyze_product_performance", "analyze_geographic_performance"}

GroupColumn(op) ==
    IF op = "analyze_product_performance" THEN "product_category_name"
    ELSE "customer_state"

Shares(groups) == [i \in 1..Len(groups) |-> groups[i].revenue_share_pct]

\* the revenue of the records that belong to a group: those with a key
GroupedRevenue(rows, col) == PriceTotal(SelectSeq(rows, LAMBDA r : r[col] # NaN))

\* C7 as stated: for every sales view the revenue_share_pct values of the
\* category groups, and of the state groups, sum to 100.
C7_SharesSumTo100 ==
    (result.op \in GroupOps /\ result.raised = "") =>
        FracEq(FracSum(Shares(result.value)), FracOfInt(100))

\* C7 as amended: the shares sum to 100 for every sales view in which the
\* records with a category (a state) have a non-zero total revenue.
C7_SharesSumTo100WhenRevenue ==
    (result.op \in GroupOps /\ result.raised = ""
        /\ GroupedRevenue(View, GroupColumn(result.op)) # 0) =>
        FracEq(FracSum(Shares(result.value)), FracOfInt(100))

\* two groups with revenue, and the shares computed
C7_Witness ==
    /\ Returns("analyze_product_performance")
    /\ Len(result.value) = 2
    /\ \A i \in 1..2 : result.value[i].revenue > 0

\* C8: the revenue_share_pct of a group is its revenue divided by the total
\* revenue of the sales view (the sum of price over all records) times 100,
\* also when some records have a null category or state.
C8_ShareOfTotalRevenue ==
    (result.op \in GroupOps /\ result.raised = "" /\ PriceTotal(View) > 0) =>
        \A i \in 1..Len(result.value) :
            FracEq(result.value[i].revenue_share_pct,
                   Frac(result.value[i].revenue * 100, PriceTotal(View)))

-----------------------------------------------------------------------------
(* C9 *)

\* the de-duplicated delivery records with a delivery_days, as a set
DeliveryRecords ==
    {r \in {<<View[i].order_id, View[i].delivery_days, View[i].review_score>> :
                i \in 1..Len(View)} : r[2] # NaN}

BandSeq == <<"1-3 days", "4-7 days", "8+ days">>
Bands == Range(BandSeq)

InBand(d, band) ==
    CASE band = "1-3 days" -> d <= 3
      [] band = "4-7 days" -> 3 < d /\ d <= 7
      [] band = "8+ days" -> d > 7

RecordsInBand(band) == {r \in DeliveryRecords : InBand(Val(r[2]), band)}

\* C9: every de-duplicated delivery record with a delivery_days d counts in
\* exactly one band, '1-3 days' when d <= 3, '4-7 days' when 3 < d <= 7,
\* '8+ days' when d > 7; records without delivery_days are left out, so that
\* delivery_category_distribution has no 'Unknown' key, gives every band the
\* share of the records in it, and sums to 1 when there is such a record.
C9_DeliveryBands ==
    ReturnsMetrics("analyze_delivery_performance") =>
        LET dist == result.value.delivery_category_distribution
        IN  /\ DOMAIN dist = {b \in Bands : RecordsInBand(b) # {}}
            /\ \A b \in DOMAIN dist :
                  FracEq(dist[b], Frac(Cardinality(RecordsInBand(b)),
                                       Cardinality(DeliveryRecords)))
            /\ DeliveryRecords # {} =>
                  FracEq(FracSum([i \in 1..Len(BandSeq) |->
                                     IF BandSeq[i] \in DOMAIN dist
                                     THEN dist[BandSeq[i]] ELSE FracOfInt(0)]),
                         FracOfInt(1))

\* deliveries of 3 and of 4 days fell into two bands
C9_Witness ==
    /\ ReturnsMetrics("analyze_delivery_performance")
    /\ {View[i].delivery_days : i \in 1..Len(View)} = {V(3), V(4)}
    /\ DOMAIN result.value.delivery_category_distribution = {"1-3 days", "4-7 days"}

-----------------------------------------------------------------------------
(* C10 *)

\* the distinct (order_id, score) pairs of the view
ReviewPairs == {<<View[i].order_id, View[i].review_score>> : i \in 1..Len(View)}

RECURSIVE ScoreTotal(_)
ScoreTotal(pairs) ==
    IF pairs = {} THEN 0
    ELSE LET p == CHOOSE q \in pairs : TRUE
         IN  Val(p[2]) + ScoreTotal(pairs \ {p})

Scored(pairs) == {p \in pairs : p[2] # NaN}

\* C10: sales rows that share an order_id and carry the same score count
\* once in total_reviews and once in avg_review_score: both are taken over
\* the distinct (order_id, score) pairs.
C10_SameScoreCountedOnce ==
    ReturnsMetrics("analyze_customer_satisfaction") =>
        LET m == result.value
        IN  /\ m.total_reviews = Cardinality(ReviewPairs)
            /\ IF Scored(ReviewPairs) = {} THEN FracIsNaN(m.avg_review_score)
               ELSE FracEq(m.avg_review_score,
                           Frac(ScoreTotal(Scored(ReviewPairs)),
                                Cardinality(Scored(ReviewPairs))))

\* two rows of one order with one score, counted as one review
C10_Witness ==
    /\ ReturnsMetrics("analyze_customer_satisfaction")
    /\ Len(View) = 2
    /\ View[1].order_id = View[2].order_id
    /\ View[1].review_score = View[2].review_score
    /\ View[1].review_score # NaN
    /\ result.value.total_reviews = 1

-----------------------------------------------------------------------------
(* C2, C3, C4 *)

Items == processed_data.order_items.rows

\* the cell a left join on `key` brings from `table` for a row: the first
\* match's, or NaN without a match
Joined(table, key, value, col) ==
    LET matches == SelectSeq(table.rows, LAMBDA r : r[key] = value)
    IN  IF matches = <<>> THEN NaN ELSE matches[1][col]

Matched(table, key, value) == \E i \in 1..Len(table.rows) : table.rows[i][key] = value

OrderCell(item, col) == Joined(processed_data.orders, "order_id", item.order_id, col)

\* the filters as the code applies them: a filter that is None, "" or 0
\* imposes nothing
SurvivesFilters(item) ==
    /\ TruthyStr(filters.status_filter) =>
          OrderCell(item, "order_status") = filters.status_filter
    /\ TruthyInt(filters.year_filter) => OrderCell(item, "year") = filters.year_filter
    /\ TruthyInt(filters.month_filter) => OrderCell(item, "month") = filters.month_filter

\* the filters as stated: every filter that is not None is applied
SelectedByFilters(item) ==
    /\ filters.status_filter # None =>
          OrderCell(item, "order_status") = filters.status_filter
    /\ filters.year_filter # None => OrderCell(item, "year") = filters.year_filter
    /\ filters.month_filter # None => OrderCell(item, "month") = filters.month_filter

ItemKey(r) == <<r.order_id, r.order_item_id>>

\* C2: an order item that survives the filters is not dropped by the
\* product, customer and review joins: it has a row in the sales view, with
\* a null category (state and city, score) when no product (customer,
\* review) matches, and its price is part of total_revenue.
C2_LeftJoinsKeepItems ==
    filters.called =>
        /\ \A i \in 1..Len(Items) :
              SurvivesFilters(Items[i]) =>
                 \E j \in 1..Len(View) :
                    /\ ItemKey(View[j]) = ItemKey(Items[i])
                    /\ View[j].price = Items[i].price
                    /\ ~Matched(processed_data.products, "product_id",
                                Items[i].product_id)
                          => View[j].product_category_name = NaN
                    /\ ~Matched(processed_data.customers, "customer_id",
                                OrderCell(Items[i], "customer_id"))
                          => (View[j].customer_state = NaN
                                /\ View[j].customer_city = NaN)
                    /\ ~Matched(processed_data.reviews, "order_id", Items[i].order_id)
                          => View[j].review_score = NaN
        /\ Returns("calculate_revenue_metrics") =>
              /\ result.value.total_revenue = PriceTotal(View)
              /\ result.value.total_revenue >=
                    PriceTotal(SelectSeq(Items, SurvivesFilters))

\* an item without product, customer and review is in the view, with a
\* price, and the revenue was computed
C2_Witness ==
    /\ filters.called
    /\ Returns("calculate_revenue_metrics")
    /\ \E j \in 1..Len(View) :
          /\ View[j].product_category_name = NaN
          /\ View[j].customer_state = NaN
          /\ View[j].review_score = NaN
          /\ Val(View[j].price) > 0

\* C3: the sales view has one row per order item that survives the
\* filters, so that total_items is the number of these items and
\* total_revenue the sum of their prices, each counted once, whatever the
\* reviews, products and customers tables hold.
C3_OneRowPerItem ==
    filters.called =>
        /\ Len(View) = Len(SelectSeq(Items, SurvivesFilters))
        /\ Returns("calculate_revenue_metrics") =>
              /\ result.value.total_items = Len(SelectSeq(Items, SurvivesFilters))
              /\ result.value.total_revenue =
                    PriceTotal(SelectSeq(Items, SurvivesFilters))

\* C4: for every value of the three filters the sales view holds exactly
\* the order items whose order has the status, the year and the month of
\* the filters that are not None; no such filter is ignored.
C4_FiltersApplied ==
    filters.called =>
        {ItemKey(View[j]) : j \in 1..Len(View)}
            = {ItemKey(Items[i]) : i \in {k \in 1..Len(Items) : SelectedByFilters(Items[k])}}

-----------------------------------------------------------------------------
(* C11 *)

\* C11: customer satisfaction is computed over one (order_id, score) pair
\* per order: every distinct order_id of the view contributes exactly one
\* pair, also when the reviews table holds several reviews with different
\* scores for one order.
C11_OnePairPerOrder ==
    (filters.called /\ ReturnsMetrics("analyze_customer_satisfaction")) =>
        result.value.total_reviews = Cardinality(OrderIdsOf(View))

-----------------------------------------------------------------------------
(* C12, C13 *)

ViewColumns == Val(sales_data).cols

IsMarker(value) == DOMAIN value = {"error"}

\* C12: whichever of the score and delivery_days columns the view has,
\* neither analysis raises: customer satisfaction returns the {error:
\* reason} marker exactly when the score column is absent, delivery
\* performance exactly when the delivery_days column is absent, and each
\* returns its metrics otherwise.  (Stated for views with a row.)
C12_AbsentColumnNeverRaises ==
    View # <<>> =>
        /\ result.op = "analyze_customer_satisfaction" =>
              /\ result.raised = ""
              /\ IsMarker(result.value) <=> "review_score" \notin ViewColumns
        /\ result.op = "analyze_delivery_performance" =>
              /\ result.raised = ""
              /\ IsMarker(result.value) <=> "delivery_days" \notin ViewColumns

\* the report section of each dimension column, and what the operation
\* behind it may hand back when called directly on the view
SectionOf ==
    [month |-> "monthly_trends", product_category_name |-> "product_performance",
     customer_state |-> "geographic_performance",
     review_score |-> "customer_satisfaction",
     delivery_days |-> "delivery_performance"]

Direct ==
    [month |-> {MonthlyTrends(Val(sales_data))},
     product_category_name |-> ProductPerformance(Val(sales_data)),
     customer_state |-> GeographicPerformance(Val(sales_data)),
     review_score |-> {CustomerSatisfaction(Val(sales_data))},
     delivery_days |-> {DeliveryPerformance(Val(sales_data))}]

\* C13: on a view (with a row) that lacks exactly one dimension column and
\* has the columns of the revenue metrics, the comprehensive report does
\* not propagate an error: it has its six sections, the section of the
\* missing dimension is an {error: ...} marker and every other section is
\* what its operation returns when called directly.
C13_PartialReport ==
    (/\ result.op = "generate_comprehensive_report"
     /\ View # <<>>
     /\ Cardinality(DimensionColumns \ ViewColumns) = 1) =>
        /\ result.raised = ""
        /\ DOMAIN result.value =
               {"revenue_metrics"} \cup {SectionOf[c] : c \in DimensionColumns}
        /\ result.value.revenue_metrics =
               RevenueMetrics(Val(sales_data), comparison_data).value
        /\ \A c \in DimensionColumns \ ViewColumns :
               IsMarker(result.value[SectionOf[c]])
        /\ \A c \in DimensionColumns \cap ViewColumns :
               /\ \A direct \in Direct[c] : direct.raised = ""
               /\ \E direct \in Direct[c] :
                      result.value[SectionOf[c]] = direct.value

-----------------------------------------------------------------------------
(* C14 *)

\* create_sales_dataset(year_filter=2023, status_filter='delivered') on the
\* tables of the end-to-end scenario
EndToEndCall ==
    /\ csv = EndToEnd
    /\ filters = [called |-> TRUE, year_filter |-> V(2023), month_filter |-> None,
                  status_filter |-> V("delivered")]

DaysOfOrder(order) ==
    {View[i].delivery_days : i \in {j \in 1..Len(View) : View[j].order_id = V(order)}}

\* C14: orders O1 (delivered, 2023-01-05 to 2023-01-09) and O2 (delivered,
\* 2023-01-20 to 2023-01-22), items O1/I1 (100 + 10) and O2/I1 (50 + 5),
\* reviews O1: 5 and O2: 3, filtered by year 2023 and status delivered,
\* give total_revenue 150, total_orders 2, average_order_value 75,
\* avg_review_score 4, O1 in '4-7 days' (4 days), O2 in '1-3 days' (2 days).
C14_EndToEnd ==
    EndToEndCall =>
        /\ DaysOfOrder(1) = {V(4)} /\ categorize_delivery_speed(V(4)) = "4-7 days"
        /\ DaysOfOrder(2) = {V(2)} /\ categorize_delivery_speed(V(2)) = "1-3 days"
        /\ result.op = "calculate_revenue_metrics" =>
              /\ result.raised = ""
              /\ result.value.total_revenue = 150
              /\ result.value.total_orders = 2
              /\ FracEq(result.value.average_order_value, FracOfInt(75))
        /\ result.op = "analyze_customer_satisfaction" =>
              /\ result.raised = ""
              /\ FracEq(result.value.avg_review_score, FracOfInt(4))
        /\ result.op = "analyze_delivery_performance" =>
              /\ result.raised = ""
              /\ DOMAIN result.value.delivery_category_distribution
                     = {"1-3 days", "4-7 days"}
              /\ \A c \in {"1-3 days", "4-7 days"} :
                     FracEq(result.value.delivery_category_distribution[c],
                            Frac(1, 2))
              /\ FracEq(result.value.avg_review_by_delivery_speed["4-7 days"],
                        FracOfInt(5))
              /\ FracEq(result.value.avg_review_by_delivery_speed["1-3 days"],
                        FracOfInt(3))

\* the delivery analysis has returned on the view of the scenario
C14_Witness ==
    /\ EndToEndCall
    /\ Len(View) = 2
    /\ ReturnsMetrics("analyze_delivery_performance")

-----------------------------------------------------------------------------
(* C15 *)

\* the months of the view, and its rows of one month
MonthsPresent == {Val(View[i].month) : i \in {j \in 1..Len(View) : View[j].month # NaN}}

InMonth(m) == SelectSeq(View, LAMBDA r : r.month = V(m))

\* two floats are the same number, the same infinity or both NaN
SameFloat(x, y) ==
    IF x.d > 0 /\ y.d > 0 THEN x.n * y.d = y.n * x.d
    ELSE x.d = 0 /\ y.d = 0
           /\ ((x.n = 0 /\ y.n = 0) \/ (x.n > 0 /\ y.n > 0) \/ (x.n < 0 /\ y.n < 0))

\* (current - previous) / previous * 100
PercentChange(current, previous) == Frac((current - previous) * 100, previous)

\* C15: the monthly trends have one row per month present in the view, in
\* ascending month order, with revenue the sum of price and orders the
\* number of distinct order_id of the month; a month without records has
\* no row; the two growth columns of a row are the percent change from the
\* row before it (the preceding month present) and absent for the first
\* row; avg_order_value is revenue / orders.
C15_MonthlyTrends ==
    Returns("calculate_monthly_trends") =>
        LET t == result.value
        IN  /\ {t[i].month : i \in 1..Len(t)} = MonthsPresent
            /\ \A i \in 1..Len(t) : \A j \in 1..Len(t) :
                   i < j => t[i].month < t[j].month
            /\ \A i \in 1..Len(t) :
                   /\ t[i].revenue = PriceTotal(InMonth(t[i].month))
                   /\ t[i].orders = Cardinality(OrderIdsOf(InMonth(t[i].month)))
                   /\ SameFloat(t[i].avg_order_value, Frac(t[i].revenue, t[i].orders))
                   /\ IF i = 1
                      THEN /\ FracIsNaN(t[i].revenue_growth_pct)
                           /\ FracIsNaN(t[i].orders_growth_pct)
                      ELSE /\ SameFloat(t[i].revenue_growth_pct,
                                        PercentChange(t[i].revenue, t[i - 1].revenue))
                           /\ SameFloat(t[i].orders_growth_pct,
                                        PercentChange(t[i].orders, t[i - 1].orders))

\* months 1 and 3 are present, month 2 is not: the row of month 3 follows
\* the row of month 1 and its growth is taken from it
C15_Witness ==
    /\ Returns("calculate_monthly_trends")
    /\ Len(result.value) = 2
    /\ result.value[1].month = 1
    /\ result.value[2].month = 3
    /\ FracEq(result.value[2].revenue_growth_pct, FracOfInt(100))

-----------------------------------------------------------------------------
(* C16 *)

\* the key of a returned group: groupby yields the groups in ascending
\* order of their key
GroupKey(op, row) == IF op = "analyze_product_performance" THEN row.category
                     ELSE row.state

\* C16: the category groups and the state groups are returned in
\* descending order of revenue, and groups of equal revenue keep the order
\* the grouping gave them (a stable sort).
C16_SortedStable ==
    (result.op \in GroupOps /\ result.raised = "") =>
        LET g == result.value
        IN  \A i \in 1..Len(g) : \A j \in 1..Len(g) :
               i < j =>
                  /\ g[i].revenue >= g[j].revenue
                  /\ g[i].revenue = g[j].revenue =>
                        GroupKey(result.op, g[i]) < GroupKey(result.op, g[j])

-----------------------------------------------------------------------------
(* C17, C18 *)

CleanOps ==
    {"clean_orders_data", "clean_order_items_data", "clean_customers_data",
     "clean_products_data", "clean_reviews_data"}

\* C17: once load and clean have completed, a create_sales_dataset call
\* (whatever its filters) or a metric computation leaves every raw table
\* and every cleaned table as it was, and a clean operation leaves the raw
\* tables as they were.
C17_TablesNotMutated ==
    [][/\ (DOMAIN processed_data = DatasetNames /\ result'.op \notin CleanOps)
            => UNCHANGED <<raw_data, processed_data>>
       /\ raw_data # <<>> => raw_data' = raw_data]_vars

\* a sales view was created from the cleaned tables and a metric computed
C17_Witness ==
    /\ filters.called
    /\ View # <<>>
    /\ Returns("generate_comprehensive_report")
    /\ processed_data.orders # raw_data.orders

\* C18: a clean transform run again leaves its cleaned table equal to the
\* result of its first run, with year and month (orders) and
\* total_item_value (order items) present once, with the same values.
C18_CleanIdempotent ==
    [][/\ \A name \in DOMAIN processed_data :
             /\ name \in DOMAIN processed_data'
             /\ processed_data'[name] = processed_data[name]
       /\ "orders" \in DOMAIN processed_data' =>
             processed_data'.orders.cols = raw_data'.orders.cols \cup {"year", "month"}
       /\ "order_items" \in DOMAIN processed_data' =>
             processed_data'.order_items.cols
                = raw_data'.order_items.cols \cup {"total_item_value"}]_vars

\* clean_orders_data has run again on the cleaned orders table
C18_Witness ==
    /\ Returns("clean_orders_data")
    /\ result.value = processed_data.orders
    /\ Len(processed_data.orders.rows) > 0

-----------------------------------------------------------------------------
(* C19 *)

FilterOrders ==
    {<<"status", "year", "month">>, <<"status", "month", "year">>,
     <<"year", "status", "month">>, <<"year", "month", "status">>,
     <<"month", "status", "year">>, <<"month", "year", "status">>}

\* the three filters fused into one conjunction over the merged rows
Fused(sales) ==
    DataFrame(sales.cols,
        SelectSeq(sales.rows,
            LAMBDA r :
                /\ TruthyStr(filters.status_filter) =>
                       r.order_status = filters.status_filter
                /\ TruthyInt(filters.year_filter) => r.year = filters.year_filter
                /\ TruthyInt(filters.month_filter) => r.month = filters.month_filter))

\* C19: the status, year and month filters commute: applied in any of the
\* six orders, or fused into one conjunction, they give the set of sales
\* records that create_sales_dataset returned.
C19_FiltersCommute ==
    (filters.called /\ result = NoResult) =>
        /\ \A order \in FilterOrders :
               Range(WithDimensions(
                         ApplyFiltersIn(order, ItemsWithOrders(processed_data),
                             filters.year_filter, filters.month_filter,
                             filters.status_filter),
                         processed_data).rows)
                  = Range(View)
        /\ Range(WithDimensions(Fused(ItemsWithOrders(processed_data)),
                                processed_data).rows)
              = Range(View)

\* the three filters were applied and kept some of the order items only
C19_Witness ==
    /\ filters.called
    /\ result = NoResult
    /\ TruthyStr(filters.status_filter)
    /\ TruthyInt(filters.year_filter)
    /\ TruthyInt(filters.month_filter)
    /\ View # <<>>
    /\ Len(View) < Len(Items)

-----------------------------------------------------------------------------
(* C20 *)

\* C20: avg_review_by_delivery_speed has an entry for a band only if a
\* de-duplicated record with a delivery_days falls in the band; a band
\* without observations is left out, and no entry is an undefined (NaN)
\* mean.
C20_BandMeansDefined ==
    ReturnsMetrics("analyze_delivery_performance") =>
        LET by_band == result.value.avg_review_by_delivery_speed
        IN  /\ DOMAIN by_band \subseteq {b \in Bands : RecordsInBand(b) # {}}
            /\ \A b \in DOMAIN by_band : ~FracIsNaN(by_band[b])

-----------------------------------------------------------------------------
(* C21 *)

\* C21: on a non-empty sales view the revenue metrics agree with one
\* another: average_order_value * total_orders = total_revenue (the
\* per-order sums of price partition the records) and
\* avg_items_per_order * total_orders = total_items.
C21_RevenueMetricsConsistent ==
    (Returns("calculate_revenue_metrics") /\ View # <<>>) =>
        LET m == result.value
        IN  /\ FracEq(FracMul(m.average_order_value, FracOfInt(m.total_orders)),
                      FracOfInt(m.total_revenue))
            /\ FracEq(FracMul(m.avg_items_per_order, FracOfInt(m.total_orders)),
                      FracOfInt(m.total_items))

\* two items of one order with a revenue: one order total, two records
C21_Witness ==
    /\ Returns("calculate_revenue_metrics")
    /\ Len(View) = 2
    /\ View[1].order_id = View[2].order_id
    /\ result.value.total_orders = 1
    /\ result.value.total_revenue > 0

-----------------------------------------------------------------------------
(* C22 *)

\* the orders of the view that have a score
ScoredOrders == {p[1] : p \in Scored(ReviewPairs)}

\* the share of a score in score_distribution, 0 when the score is absent
ShareOfScore(dist, score) == IF score \in DOMAIN dist THEN dist[score] ELSE FracOfInt(0)

\* C22: total_reviews and the denominator of high_satisfaction_pct count
\* the orders that have a score only: on a view with a scored order,
\* total_reviews is the number of scored orders and high_satisfaction_pct
\* is 100 * (score_distribution[4] + score_distribution[5]), also when
\* some orders of the view have no review (a null score).
C22_OnlyScoredOrdersCounted ==
    (ReturnsMetrics("analyze_customer_satisfaction") /\ ScoredOrders # {}) =>
        LET m == result.value
        IN  /\ m.total_reviews = Cardinality(ScoredOrders)
            /\ SameFloat(m.high_satisfaction_pct,
                         FracMul(FracOfInt(100),
                                 FracAdd(ShareOfScore(m.score_distribution, 4),
                                         ShareOfScore(m.score_distribution, 5))))

=============================================================================
